---- MODULE Spec2Model ----
(***************************************************************************)
(* Model of the two scripts of the repository:                             *)
(*   scripts/integrations.py   the identifier-gated publish run            *)
(*   scripts/nightly_audit.py  the nightly collection run                  *)
(* Each script is a single sequential thread; its blocking calls (POST,    *)
(* IMAP, Twilio, MDM GET) answer with an outcome drawn from a small set.   *)
(***************************************************************************)
EXTENDS Integers, Sequences, FiniteSets, TLC

VARIABLES
    \* ---- scripts/integrations.py ----
    ppc,          \* position of the publish run
    env,          \* process environment read by the publish run
    ledger,       \* rows of ledger.csv, each row reduced to its amount column
    results,      \* report['results']
    sent,         \* per target, the payloads POSTed so far
    reportFile,   \* content of integrations_report.json
    logLines,     \* lines appended to integrations.log (kind of line only)
    exitStatus,   \* process exit status of the publish run
    \* ---- scripts/nightly_audit.py ----
    cpc,          \* position of the collection run
    runNo,        \* collection runs started so far against the output directory
    args,         \* parsed command line of the current run: since, targets
    since_dt,     \* the run's start date
    emails,       \* result of fetch_emails as run() holds it
    sms,          \* result of fetch_twilio_messages
    devices,      \* result of fetch_apple_mdm
    called,       \* collectors invoked by the current run, in order
    written,      \* paths of the files the current run has written
    uploads,      \* archive uploads attempted by the current run
    cexit,        \* exit status of the current collection run
    dirs,         \* directories that exist at or under the output directory
    files,        \* files under the output directory: path -> content
    fsAtStart     \* dirs and files as they were when the current run started

pvars == <<ppc, env, ledger, results, sent, reportFile, logLines, exitStatus>>

cvars == <<cpc, runNo, args, since_dt, emails, sms, devices, called, written, uploads, cexit, dirs, files, fsAtStart>>

vars == <<pvars, cvars>>

(***************************************************************************)
(* Bounds                                                                  *)
(***************************************************************************)
MaxRows == 2
MaxRuns == 2
MaxUid == 2

(***************************************************************************)
(* Python values                                                           *)
(***************************************************************************)
None == "<None>"
\* A file of the output directory: absent, or present with a JSON document
NoFile == [exists |-> FALSE, doc |-> <<>>]
File(d) == [exists |-> TRUE, doc |-> d]
\* The exit status of a process: still running, or exited with a code
Running == [exited |-> FALSE, code |-> 0]
Exit(k) == [exited |-> TRUE, code |-> k]

Range(f) == {f[i] : i \in DOMAIN f}

\* bool(v) of a value that is None or a str
Truthy(v) == v # None /\ v # ""

\* os.getenv(name, default)
Getenv(name, default) == IF env[name] = None THEN default ELSE env[name]

EnvValues == {None, "", "v"}

Targets == {"coupa", "piee", "sam"}
UrlVar(t) == CASE t = "coupa" -> "COUPA_API_URL" [] t = "piee" -> "PIEE_API_URL" [] t = "sam" -> "SAM_API_URL"
KeyVar(t) == CASE t = "coupa" -> "COUPA_API_KEY" [] t = "piee" -> "PIEE_API_KEY" [] t = "sam" -> "SAM_API_KEY"
PublishEnvVars == {"UEI", "CAGE_CODE"} \cup {UrlVar(t) : t \in Targets} \cup {KeyVar(t) : t \in Targets}

(***************************************************************************)
(* Python values met by the amount arithmetic: None, a str (a sequence of  *)
(* characters) or an int.                                                  *)
(***************************************************************************)
PyNone == [tag |-> "None", s |-> <<>>, n |-> 0]
PyStr(chars) == [tag |-> "str", s |-> chars, n |-> 0]
PyInt(k) == [tag |-> "int", s |-> <<>>, n |-> k]

\* bool(v)
PyTruthy(v) == CASE v.tag = "None" -> FALSE [] v.tag = "str" -> v.s # <<>> [] v.tag = "int" -> v.n # 0

\* The amount column of a ledger row: absent from the row (DictReader gives
\* None for a short row), blank, a number, or text that is not a number.
Amounts == {PyNone, PyStr(<<>>), PyStr(<<"1", "2">>), PyStr(<<"x">>)}
Ledgers == UNION {[1..n -> Amounts] : n \in 0..MaxRows}

Digits == {"0", "1", "2", "3", "4", "5", "6", "7", "8", "9"}
DigitVal(c) == CHOOSE d \in 0..9 : <<"0", "1", "2", "3", "4", "5", "6", "7", "8", "9">>[d + 1] = c

RECURSIVE StripLeft(_), StripRight(_), DigitsVal(_)
StripLeft(s) == IF s # <<>> /\ Head(s) = " " THEN StripLeft(Tail(s)) ELSE s
StripRight(s) == IF s # <<>> /\ s[Len(s)] = " " THEN StripRight(SubSeq(s, 1, Len(s) - 1)) ELSE s
DigitsVal(s) == IF s = <<>> THEN 0 ELSE 10 * DigitsVal(SubSeq(s, 1, Len(s) - 1)) + DigitVal(s[Len(s)])
Strip(s) == StripRight(StripLeft(s))

\* float(x): an int converts; a str is stripped of surrounding blanks and must
\* then be a number literal (the unsigned whole-number literals are the fragment
\* modelled), anything else raises ValueError; None raises TypeError.
FloatRaises(x) ==
    CASE x.tag = "int" -> FALSE
      [] x.tag = "None" -> TRUE
      [] x.tag = "str" -> Strip(x.s) = <<>> \/ \E i \in 1..Len(Strip(x.s)) : Strip(x.s)[i] \notin Digits
FloatVal(x) == IF x.tag = "int" THEN x.n ELSE DigitsVal(Strip(x.s))

\* r.get('amount') or 0
AmountOrZero(a) == IF PyTruthy(a) THEN a ELSE PyInt(0)

\* sum([float(r.get('amount') or 0) for r in ledger]): the list is built first,
\* so one raising row raises for the whole expression.
RECURSIVE SumSeq(_)
SumSeq(s) == IF s = <<>> THEN 0 ELSE FloatVal(AmountOrZero(Head(s))) + SumSeq(Tail(s))
TotalRaises(l) == \E i \in 1..Len(l) : FloatRaises(AmountOrZero(l[i]))
TotalAmount(l) == SumSeq(l)

(***************************************************************************)
(* post(url, key, payload): one requests.post; a response gives ok/status, *)
(* an exception gives ok False and the error text.                         *)
(***************************************************************************)
PostOutcomes == {"200", "500", "exception"}
PostResult(o) ==
    CASE o = "200" -> [ok |-> TRUE, status |-> 200, error |-> None]
      [] o = "500" -> [ok |-> FALSE, status |-> 500, error |-> None]
      [] o = "exception" -> [ok |-> FALSE, status |-> None, error |-> "e"]

\* a target attempted on its URL alone
ConfiguredUrlOnly(t) == Truthy(env[UrlVar(t)])

\* if <t>_url and <t>_key
Configured(t) == Truthy(env[UrlVar(t)]) /\ Truthy(env[KeyVar(t)])

\* the enterprise dict, required fields
Enterprise == [uei |-> Getenv("UEI", ""), cage |-> Getenv("CAGE_CODE", "")]

\* the gate with the CAGE check left out
MissingUeiOnly == IF ~Truthy(Enterprise.uei) THEN <<"UEI">> ELSE <<>>

\* missing = [] ; append 'UEI' ; append 'CAGE_CODE'
Missing ==
    (IF ~Truthy(Enterprise.uei) THEN <<"UEI">> ELSE <<>>)
        \o (IF ~Truthy(Enterprise.cage) THEN <<"CAGE_CODE">> ELSE <<>>)

(***************************************************************************)
(* The state of a script that is not running                               *)
(***************************************************************************)
NoArgs == [since |-> PyNone, targets |-> <<>>]
EmptyFs == [dirs |-> {}, files |-> <<>>]

CollectIdle ==
    /\ cpc = "idle"
    /\ runNo = 0
    /\ args = NoArgs
    /\ since_dt = <<>>
    /\ emails = <<>>
    /\ sms = <<>>
    /\ devices = PyNone
    /\ called = <<>>
    /\ written = {}
    /\ uploads = 0
    /\ cexit = Running
    /\ dirs = {}
    /\ files = <<>>
    /\ fsAtStart = EmptyFs

PublishIdle ==
    /\ ppc = "idle"
    /\ env = [v \in PublishEnvVars |-> None]
    /\ ledger = <<>>
    /\ results = <<>>
    /\ sent = [t \in Targets |-> <<>>]
    /\ reportFile = NoFile
    /\ logLines = <<>>
    /\ exitStatus = Running

\* The publish run on reaching the gate (lines 62-94): the input directory
\* exists, ledger.csv has been read (no rows when it is absent), the clearing
\* report, a JSON document when present, has been read and is used no further,
\* and the environment is whatever the workflow exported.
PublishInit ==
    /\ CollectIdle
    /\ ppc = "gate"
    /\ env \in [PublishEnvVars -> EnvValues]
    /\ ledger \in Ledgers
    /\ results = <<>>
    /\ sent = [t \in Targets |-> <<>>]
    /\ reportFile = NoFile
    /\ logLines = <<>>
    /\ exitStatus = Running

\* lines 96-109: the gate rejects
GateReject ==
    /\ ppc = "gate"
    /\ Missing # <<>>
    /\ logLines' = Append(logLines, "missing")
    /\ reportFile' = File([error |-> "missing_identifiers", missing |-> Missing, run_ts |-> "ts"])
    /\ exitStatus' = Exit(3)
    /\ ppc' = "exited"
    /\ UNCHANGED <<env, ledger, results, sent, cvars>>

\* lines 96-115: the gate passes; the warning line is logged when one of the
\* four recommended identifiers is not set
GatePass ==
    /\ ppc = "gate"
    /\ Missing = <<>>
    /\ \E warn \in BOOLEAN : logLines' = IF warn THEN Append(logLines, "warning") ELSE logLines
    /\ ppc' = "coupa"
    /\ UNCHANGED <<env, ledger, results, sent, reportFile, exitStatus, cvars>>

NextTarget(t) == CASE t = "coupa" -> "piee" [] t = "piee" -> "sam" [] t = "sam" -> "save"

\* the payload built for target t (lines 123-130, 142-147, 159-174), reduced to
\* the required identifiers and what it takes from the ledger
Payload(t) ==
    CASE t = "coupa" -> [enterprise |-> Enterprise, items |-> ledger]
      [] t = "piee" -> [enterprise |-> Enterprise, items_count |-> Len(ledger), total_amount |-> TotalAmount(ledger)]
      [] t = "sam" -> [enterprise |-> Enterprise, items |-> Len(ledger)]

\* building the payload raises: only PIEE's converts amounts
PayloadRaises(t) == t = "piee" /\ TotalRaises(ledger)

\* if url and key: log, build payload, post, record, log
Publish(t) ==
    /\ ppc = t
    /\ Configured(t)
    /\ ~PayloadRaises(t)
    /\ \E o \in PostOutcomes :
          /\ sent' = [sent EXCEPT ![t] = Append(@, Payload(t))]
          /\ results' = [x \in DOMAIN results \cup {t} |-> IF x = t THEN PostResult(o) ELSE results[x]]
    /\ logLines' = logLines \o <<"posting " \o t, "response " \o t>>
    /\ ppc' = NextTarget(t)
    /\ UNCHANGED <<env, ledger, reportFile, exitStatus, cvars>>

\* if url and key: log, then the payload expression raises; nothing catches it
PublishRaise(t) ==
    /\ ppc = t
    /\ Configured(t)
    /\ PayloadRaises(t)
    /\ logLines' = Append(logLines, "posting " \o t)
    /\ exitStatus' = Exit(1)
    /\ ppc' = "exited"
    /\ UNCHANGED <<env, ledger, results, sent, reportFile, cvars>>

\* else: log the skip
Skip(t) ==
    /\ ppc = t
    /\ ~Configured(t)
    /\ logLines' = Append(logLines, "skipping " \o t)
    /\ ppc' = NextTarget(t)
    /\ UNCHANGED <<env, ledger, results, sent, reportFile, exitStatus, cvars>>

\* lines 181-186
SaveReport ==
    /\ ppc = "save"
    /\ reportFile' = File([run_ts |-> "ts", counts |-> [ledger_rows |-> Len(ledger)], results |-> results, enterprise |-> Enterprise])
    /\ logLines' = Append(logLines, "wrote")
    /\ exitStatus' = Exit(0)
    /\ ppc' = "exited"
    /\ UNCHANGED <<env, ledger, results, sent, cvars>>

PublishNext ==
    \/ GateReject
    \/ GatePass
    \/ \E t \in Targets : Publish(t)
    \/ \E t \in Targets : PublishRaise(t)
    \/ \E t \in Targets : Skip(t)
    \/ SaveReport

PublishSpec == PublishInit /\ [][PublishNext]_vars

(***************************************************************************)
(* scripts/nightly_audit.py                                                *)
(***************************************************************************)

\* ---- dates: datetime.strptime(s, '%Y-%m-%d').date() and date.isoformat() ----
RECURSIVE SplitOn(_, _)
SplitOn(s, sep) ==
    IF \A i \in 1..Len(s) : s[i] # sep
    THEN <<s>>
    ELSE LET k == CHOOSE i \in 1..Len(s) : s[i] = sep /\ \A j \in 1..(i - 1) : s[j] # sep
         IN <<SubSeq(s, 1, k - 1)>> \o SplitOn(SubSeq(s, k + 1, Len(s)), sep)

IsDigits(s) == \A i \in 1..Len(s) : s[i] \in Digits
IsLeap(y) == (y % 4 = 0 /\ y % 100 # 0) \/ y % 400 = 0
DaysIn(y, m) == IF m = 2 THEN (IF IsLeap(y) THEN 29 ELSE 28) ELSE IF m \in {4, 6, 9, 11} THEN 30 ELSE 31

\* %Y is four digits, %m and %d one or two; the date must exist
StrptimeOk(s) ==
    LET f == SplitOn(s, "-") IN
    /\ Len(f) = 3
    /\ Len(f[1]) = 4 /\ IsDigits(f[1]) /\ DigitsVal(f[1]) >= 1
    /\ Len(f[2]) \in 1..2 /\ IsDigits(f[2]) /\ DigitsVal(f[2]) \in 1..12
    /\ Len(f[3]) \in 1..2 /\ IsDigits(f[3])
    /\ DigitsVal(f[3]) \in 1..DaysIn(DigitsVal(f[1]), DigitsVal(f[2]))
StrptimeDate(s) == LET f == SplitOn(s, "-") IN <<DigitsVal(f[1]), DigitsVal(f[2]), DigitsVal(f[3])>>

DigitChar(d) == <<"0", "1", "2", "3", "4", "5", "6", "7", "8", "9">>[d + 1]
Pad2(k) == <<DigitChar((k \div 10) % 10), DigitChar(k % 10)>>
Pad4(k) == Pad2(k \div 100) \o Pad2(k % 100)
IsoFormat(d) == Pad4(d[1]) \o <<"-">> \o Pad2(d[2]) \o <<"-">> \o Pad2(d[3])

\* datetime.utcnow().date()
Today == <<2025, 1, 6>>

\* ---- the output directory ----
BaseDir == [kind |-> "base", date |-> <<>>]
DailyRoot == [kind |-> "daily", date |-> <<>>]
\* os.path.join(daily_root, f'from-{since_dt.isoformat()}')
RunFolder(d) == [kind |-> "run", date |-> IsoFormat(d)]

\* os.path.join(folder, name); a raw message is named by its uid
Path(folder, name, uid) == [dir |-> folder, name |-> name, uid |-> uid]
EmlPath(folder, uid) == Path(folder, "eml", uid)

\* open(path, 'w') ... write: the file is created or replaced
WriteFile(fs, p, c) == [q \in DOMAIN fs \cup {p} |-> IF q = p THEN c ELSE fs[q]]

\* ---- command line ----
Chars2025_01_05 == <<"2", "0", "2", "5", "-", "0", "1", "-", "0", "5">>
Chars2025_1_5 == <<"2", "0", "2", "5", "-", "1", "-", "5">>
Chars2025_13_01 == <<"2", "0", "2", "5", "-", "1", "3", "-", "0", "1">>
Chars2025_02_30 == <<"2", "0", "2", "5", "-", "0", "2", "-", "3", "0">>
\* --since: not given (the run starts today), a date, the same date unpadded, and
\* two strings strptime rejects
SinceArgs == {PyNone, PyStr(Chars2025_01_05), PyStr(Chars2025_1_5), PyStr(Chars2025_13_01), PyStr(Chars2025_02_30)}

\* --targets, as its comma-separated parts
TargetArgs == {<<"A@X", " b@y">>}

\* str.lower() and str.strip() on the addresses drawn
Lower(a) == CASE a = "A@X" -> "a@x" [] a = "B@y" -> "b@y" [] OTHER -> a
StripStr(a) == CASE a = " b@y" -> "b@y" [] OTHER -> a

\* targets = [t.strip().lower() for t in args.targets.split(',')]
TargetList(parts) == [i \in 1..Len(parts) |-> Lower(StripStr(parts[i]))]

\* ---- mail ----
\* parsed.to of a message (None and [] alike become [])
ToLists == {<<>>, <<"c@z", "a@x">>, <<"c@z">>}

RECURSIVE SortedSeq(_)
SortedSeq(S) == IF S = {} THEN <<>> ELSE LET m == CHOOSE x \in S : \A y \in S : x <= y IN <<m>> \o SortedSeq(S \ {m})

\* recipients = [r.lower() for r in (parsed.to or [])]; any(t in recipients for t in targets)
Retained(to, targets) == \E i \in 1..Len(targets) : \E j \in 1..Len(to) : targets[i] = Lower(to[j])

RECURSIVE RetainedUids(_, _, _)
RetainedUids(order, mbox, targets) ==
    IF order = <<>> THEN <<>>
    ELSE (IF Retained(mbox[Head(order)], targets) THEN <<Head(order)>> ELSE <<>>)
             \o RetainedUids(Tail(order), mbox, targets)

RECURSIVE WriteEmls(_, _, _, _)
WriteEmls(fs, folder, uids, mbox) ==
    IF uids = <<>> THEN fs
    ELSE WriteEmls(WriteFile(fs, EmlPath(folder, Head(uids)), [uid |-> Head(uids), to |-> mbox[Head(uids)]]),
                   folder, Tail(uids), mbox)

\* ---- device inventory ----
PyList(items) == [tag |-> "list", s |-> items, n |-> 0]
PyDict(keys) == [tag |-> "dict", s |-> keys, n |-> 0]
\* len(devices) if isinstance(devices, list) else 0
DevicesCount(d) == IF d.tag = "list" THEN Len(d.s) ELSE 0

\* Before the first run: the output directory may or may not exist yet
CollectInit ==
    /\ PublishIdle
    /\ cpc = "idle"
    /\ runNo = 0
    /\ args = NoArgs
    /\ since_dt = <<>>
    /\ emails = <<>>
    /\ sms = <<>>
    /\ devices = PyNone
    /\ called = <<>>
    /\ written = {}
    /\ uploads = 0
    /\ cexit = Running
    /\ dirs \in {{}, {BaseDir}}
    /\ files = <<>>
    /\ fsAtStart = EmptyFs

\* a new invocation of the script against the same output directory
StartRun ==
    /\ cpc \in {"idle", "exited"}
    /\ runNo < MaxRuns
    /\ runNo' = runNo + 1
    /\ \E s \in SinceArgs, t \in TargetArgs : args' = [since |-> s, targets |-> t]
    /\ since_dt' = <<>>
    /\ emails' = <<>>
    /\ sms' = <<>>
    /\ devices' = PyNone
    /\ called' = <<>>
    /\ written' = {}
    /\ uploads' = 0
    /\ cexit' = Running
    /\ fsAtStart' = [dirs |-> dirs, files |-> files]
    /\ cpc' = "setup"
    /\ UNCHANGED <<dirs, files, pvars>>

\* lines 90-103: both directories are created, then --since is rejected
InvalidSince ==
    /\ cpc = "setup"
    /\ PyTruthy(args.since) /\ ~StrptimeOk(args.since.s)
    /\ dirs' = dirs \cup {BaseDir, DailyRoot}
    /\ cexit' = Exit(2)
    /\ cpc' = "exited"
    /\ UNCHANGED <<runNo, args, since_dt, emails, sms, devices, called, written, uploads, files, fsAtStart, pvars>>

\* lines 90-109: directories, start date, run folder
Setup ==
    /\ cpc = "setup"
    /\ ~PyTruthy(args.since) \/ StrptimeOk(args.since.s)
    /\ since_dt' = IF PyTruthy(args.since) THEN StrptimeDate(args.since.s) ELSE Today
    /\ dirs' = dirs \cup {BaseDir, DailyRoot, RunFolder(since_dt')}
    /\ cpc' = "mail"
    /\ UNCHANGED <<runNo, args, emails, sms, devices, called, written, uploads, cexit, files, fsAtStart, pvars>>

\* lines 128-133 with fetch_emails: the messages found are handled in uid order;
\* failAt = 0: connecting, selecting, searching or fetching raises;
\* failAt = k in 1..n: parsing the k-th message raises; n + 1: logout raises;
\* n + 2: nothing raises. run() catches and keeps emails = [].
FetchEmails ==
    /\ cpc = "mail"
    /\ \E S \in SUBSET (1..MaxUid) : \E mbox \in [S -> ToLists] :
         LET order == SortedSeq(S)
             n == Len(order)
             folder == RunFolder(since_dt)
             targets == TargetList(args.targets)
         IN \E failAt \in 0..(n + 2) :
              LET handled == IF failAt = 0 THEN 0 ELSE IF failAt <= n THEN failAt - 1 ELSE n
                  kept == RetainedUids(SubSeq(order, 1, handled), mbox, targets)
                  raised == failAt <= n + 1
              IN /\ files' = WriteEmls(files, folder, kept, mbox)
                 /\ written' = written \cup {EmlPath(folder, kept[i]) : i \in 1..Len(kept)}
                 /\ emails' = IF raised THEN <<>> ELSE [i \in 1..Len(kept) |-> [uid |-> kept[i], to |-> mbox[kept[i]]]]
                 /\ called' = Append(called, [c |-> "mail", o |-> IF raised THEN "raised" ELSE "ok"])
    /\ cpc' = "sms"
    /\ UNCHANGED <<runNo, args, since_dt, sms, devices, uploads, cexit, dirs, fsAtStart, pvars>>

\* PHONE_NUMBERS as its non-blank comma-separated parts
PhoneEnvs == {<<>>, <<"2704018770">>}
\* lines 119-122
PhoneNums(parts) == IF \E i \in 1..Len(parts) : parts[i] = "2704018770" THEN parts ELSE Append(parts, "2704018770")

RECURSIVE ListMessages(_, _)
\* for num in phone_numbers: for m in client.messages.list(to=num, ...): results.append(...)
ListMessages(nums, inbox) ==
    IF nums = <<>> THEN <<>>
    ELSE (IF Head(nums) \in inbox THEN <<[sid |-> "SM", to |-> Head(nums)]>> ELSE <<>>) \o ListMessages(Tail(nums), inbox)

\* lines 56-57: no sid or no token
FetchSmsSkip ==
    /\ cpc = "sms"
    /\ \E sid \in EnvValues, token \in EnvValues : ~Truthy(sid) \/ ~Truthy(token)
    /\ sms' = <<>>
    /\ called' = Append(called, [c |-> "sms", o |-> "skipped"])
    /\ cpc' = "mdm"
    /\ UNCHANGED <<runNo, args, since_dt, emails, devices, written, uploads, cexit, dirs, files, fsAtStart, pvars>>

\* lines 58-69: the provider answers for every number
FetchSms ==
    /\ cpc = "sms"
    /\ \E sid \in EnvValues, token \in EnvValues : Truthy(sid) /\ Truthy(token)
    /\ \E parts \in PhoneEnvs : \E inbox \in SUBSET Range(PhoneNums(parts)) :
         /\ sms' = ListMessages(PhoneNums(parts), inbox)
         /\ files' = WriteFile(files, Path(RunFolder(since_dt), "sms.json", 0), sms')
    /\ written' = written \cup {Path(RunFolder(since_dt), "sms.json", 0)}
    /\ called' = Append(called, [c |-> "sms", o |-> "ok"])
    /\ cpc' = "mdm"
    /\ UNCHANGED <<runNo, args, since_dt, emails, devices, uploads, cexit, dirs, fsAtStart, pvars>>

\* lines 58-63: the import, the client or a listing raises; line 136 has no handler
FetchSmsRaise ==
    /\ cpc = "sms"
    /\ \E sid \in EnvValues, token \in EnvValues : Truthy(sid) /\ Truthy(token)
    /\ called' = Append(called, [c |-> "sms", o |-> "raised"])
    /\ cexit' = Exit(1)
    /\ cpc' = "exited"
    /\ UNCHANGED <<runNo, args, since_dt, emails, sms, devices, written, uploads, dirs, files, fsAtStart, pvars>>

\* lines 73-74: no url or no key
FetchMdmSkip ==
    /\ cpc = "mdm"
    /\ \E url \in EnvValues, key \in EnvValues : ~Truthy(url) \/ ~Truthy(key)
    /\ devices' = PyNone
    /\ called' = Append(called, [c |-> "mdm", o |-> "skipped"])
    /\ cpc' = "index"
    /\ UNCHANGED <<runNo, args, since_dt, emails, sms, written, uploads, cexit, dirs, files, fsAtStart, pvars>>

\* what r.json() gives on a 2xx answer: a list of devices, or some other document
DeviceDocs == {PyList(<<>>), PyList(<<"d1">>), PyDict(<<"devices">>)}

\* lines 78-82: r.ok
FetchMdmOk ==
    /\ cpc = "mdm"
    /\ \E url \in EnvValues, key \in EnvValues : Truthy(url) /\ Truthy(key)
    /\ \E doc \in DeviceDocs :
         /\ devices' = doc
         /\ files' = WriteFile(files, Path(RunFolder(since_dt), "devices.json", 0), doc)
    /\ written' = written \cup {Path(RunFolder(since_dt), "devices.json", 0)}
    /\ called' = Append(called, [c |-> "mdm", o |-> "ok"])
    /\ cpc' = "index"
    /\ UNCHANGED <<runNo, args, since_dt, emails, sms, uploads, cexit, dirs, fsAtStart, pvars>>

\* lines 83-86: a non-success status, or the GET (or r.json()) raises
MdmFailures == {"500", "raised"}
FetchMdmFail ==
    /\ cpc = "mdm"
    /\ \E url \in EnvValues, key \in EnvValues : Truthy(url) /\ Truthy(key)
    /\ \E o \in MdmFailures :
         /\ devices' = IF o = "500" THEN PyDict(<<"error", "body">>) ELSE PyDict(<<"error">>)
         /\ called' = Append(called, [c |-> "mdm", o |-> o])
    /\ cpc' = "index"
    /\ UNCHANGED <<runNo, args, since_dt, emails, sms, written, uploads, cexit, dirs, files, fsAtStart, pvars>>

IndexPath(d) == Path(RunFolder(d), "index.json", 0)

\* lines 141-144
WriteIndex ==
    /\ cpc = "index"
    /\ files' = WriteFile(files, IndexPath(since_dt),
                          [run_from |-> IsoFormat(since_dt), generated_ts |-> "ts", emails_count |-> Len(emails),
                           sms_count |-> Len(sms), devices_count |-> DevicesCount(devices)])
    /\ written' = written \cup {IndexPath(since_dt)}
    /\ cpc' = "upload"
    /\ UNCHANGED <<runNo, args, since_dt, emails, sms, devices, called, uploads, cexit, dirs, fsAtStart, pvars>>

\* lines 146-157: the upload is attempted when url and key are set; whatever it
\* answers, or raises, is only printed
Upload ==
    /\ cpc = "upload"
    /\ \E url \in EnvValues, key \in EnvValues : Truthy(url) /\ Truthy(key)
    /\ uploads' = uploads + 1
    /\ cexit' = Exit(0)
    /\ cpc' = "exited"
    /\ UNCHANGED <<runNo, args, since_dt, emails, sms, devices, called, written, dirs, files, fsAtStart, pvars>>

UploadSkip ==
    /\ cpc = "upload"
    /\ \E url \in EnvValues, key \in EnvValues : ~Truthy(url) \/ ~Truthy(key)
    /\ cexit' = Exit(0)
    /\ cpc' = "exited"
    /\ UNCHANGED <<runNo, args, since_dt, emails, sms, devices, called, written, uploads, dirs, files, fsAtStart, pvars>>

CollectNext ==
    \/ StartRun
    \/ InvalidSince
    \/ Setup
    \/ FetchEmails
    \/ FetchSmsSkip
    \/ FetchSms
    \/ FetchSmsRaise
    \/ FetchMdmSkip
    \/ FetchMdmOk
    \/ FetchMdmFail
    \/ WriteIndex
    \/ Upload
    \/ UploadSkip

CollectSpec == CollectInit /\ [][CollectNext]_vars

(***************************************************************************)
(* Claims about the publish run                                            *)
(***************************************************************************)
Unset(name) == env[name] \in {None, ""}
GatePasses == ~Unset("UEI") /\ ~Unset("CAGE_CODE")
FullyConfigured(t) == ~Unset(UrlVar(t)) /\ ~Unset(KeyVar(t))
PublishExited == ppc = "exited"

C2_RunAlwaysCompletes ==
    (GatePasses /\ PublishExited) =>
        /\ exitStatus = Exit(0)
        /\ reportFile.exists
        /\ "results" \in DOMAIN reportFile.doc

\* C3: each target receives exactly one POST when the gate passes and its URL
\* and key are set, and none otherwise.
C3_ExactlyOneAttempt ==
    PublishExited =>
        \A t \in Targets :
            Len(sent[t]) = IF GatePasses /\ FullyConfigured(t) THEN 1 ELSE 0

\* The value the claim gives a row: its amount when that is a number, else 0
ClaimedRowValue(a) ==
    IF a.tag = "str" /\ a.s # <<>> /\ \A i \in 1..Len(a.s) : a.s[i] \in Digits THEN DigitsVal(a.s) ELSE 0
RECURSIVE ClaimedTotal(_)
ClaimedTotal(l) == IF l = <<>> THEN 0 ELSE ClaimedRowValue(Head(l)) + ClaimedTotal(Tail(l))

\* C4: when PIEE is configured, the run is never aborted by the total: PIEE is
\* sent a total_amount equal to the sum of the rows' amounts, a missing, blank
\* or non-numeric amount counting as 0.
C4_TotalCoercesToZero ==
    (GatePasses /\ FullyConfigured("piee") /\ PublishExited) =>
        /\ Len(sent["piee"]) = 1
        /\ sent["piee"][1].total_amount = ClaimedTotal(ledger)

\* C7 as claimed: the full report has an entry for exactly the targets whose
\* URL was configured.
C7_ResultsForUrlConfigured ==
    (reportFile.exists /\ "results" \in DOMAIN reportFile.doc) =>
        DOMAIN reportFile.doc.results = {t \in Targets : ~Unset(UrlVar(t))}

\* C7 amended: the full report has an entry for exactly the targets whose URL
\* and API key were both configured.
C7_ResultsForFullyConfigured ==
    (reportFile.exists /\ "results" \in DOMAIN reportFile.doc) =>
        DOMAIN reportFile.doc.results = {t \in Targets : FullyConfigured(t)}

\* C7 witness: a full report written when one target had its URL but no key,
\* one had both, and one had neither
C7_Witness ==
    /\ reportFile.exists
    /\ "results" \in DOMAIN reportFile.doc
    /\ ~Unset("COUPA_API_URL") /\ Unset("COUPA_API_KEY")
    /\ FullyConfigured("piee")
    /\ Unset("SAM_API_URL") /\ Unset("SAM_API_KEY")
    /\ DOMAIN reportFile.doc.results = {"piee"}

(***************************************************************************)
(* Claims about the collection run                                         *)
(***************************************************************************)
CollectExited == cpc = "exited"
\* the run got past the command line
RunPrepared == since_dt # <<>>
RunWorkspace == RunFolder(since_dt)
CalledNames == [i \in 1..Len(called) |-> called[i].c]
MdmFailed == \E i \in 1..Len(called) : called[i].c = "mdm" /\ called[i].o \in {"500", "raised"}
IndexWritten == RunPrepared /\ IndexPath(since_dt) \in written
DevicesPath == Path(RunWorkspace, "devices.json", 0)
FilesIn(fs, folder) == {q \in DOMAIN fs : q.dir = folder}

\* C5: whatever fails inside one collector, the run goes on: the three
\* collectors are invoked in order and index.json is written at the end.
C5_CollectorFailureIsolated ==
    (CollectExited /\ RunPrepared) =>
        /\ CalledNames = <<"mail", "sms", "mdm">>
        /\ IndexWritten
        /\ cexit = Exit(0)

\* C6: after a device fetch that answered a non-success status or raised, the
\* index has devices_count = 0 and devices.json holds an error object.
C6_FailedFetchPersistsErrorObject ==
    (MdmFailed /\ IndexWritten) =>
        /\ files[IndexPath(since_dt)].devices_count = 0
        /\ DevicesPath \in DOMAIN files
        /\ files[DevicesPath].tag = "dict"
        /\ "error" \in Range(files[DevicesPath].s)

\* C8: a run that exits with status 2 has created or changed no directory and
\* no file, and has called no collector.
C8_UsageErrorBeforeAnyIO ==
    (CollectExited /\ cexit = Exit(2)) =>
        /\ dirs = fsAtStart.dirs
        /\ DOMAIN files = DOMAIN fsAtStart.files
        /\ \A q \in DOMAIN files : files[q] = fsAtStart.files[q]
        /\ called = <<>>

\* C9: a run leaves the files of every other workspace as they were; and a run
\* into the workspace of an earlier completed run with the same start date ends
\* with that workspace holding exactly the files it wrote itself, no artifact
\* of the earlier run surviving.
C9_WorkspaceHoldsOnlyThisRun ==
    (CollectExited /\ cexit = Exit(0)) =>
        /\ \A q \in DOMAIN fsAtStart.files :
              q.dir # RunWorkspace => q \in DOMAIN files /\ files[q] = fsAtStart.files[q]
        /\ IndexPath(since_dt) \in DOMAIN fsAtStart.files => FilesIn(files, RunWorkspace) = written

\* C10: emails_count of the index the run writes is the number of raw message
\* files the run persisted.
C10_EmailsCountIsPersistedCount ==
    IndexWritten =>
        files[IndexPath(since_dt)].emails_count = Cardinality({q \in written : q.name = "eml"})

====
